---- MODULE Spec2Model ----
(***************************************************************************)
(* A model of the Git project file summarizer of bubble-tea-playground.    *)
(*                                                                         *)
(* The repository holds several variants of the same program.  Each is a   *)
(* specification of this module over the same state:                       *)
(*                                                                         *)
(*   Spec     the message-driven variant (src/unnamed/part_001:1-182 with  *)
(*            src/pkg/git-project-file-summarizer/domain.go): the size is  *)
(*            fetched by a Bubble Tea command and merged by Update when    *)
(*            the afterFetch message arrives.                              *)
(*   SpecFn   the updateFn variant (src/unnamed/part_001:184-428): the     *)
(*            list holds pointers to the files of a domain model, a        *)
(*            goroutine fetches the size and calls updateFn, which         *)
(*            rebuilds the list and reselects the selected item.           *)
(*   SpecFair the message-driven variant with the commands of "enter"      *)
(*            completing: Bubble Tea delivers the message of a command.    *)
(*   SpecWalk the enumeration (listGitProjectFiles of domain.go): the walk *)
(*            of the working directory that Init's command runs.           *)
(*   SpecSum  the basic file summarizer (src/file-summarizer.go): the       *)
(*            files of the working directory are listed, some are          *)
(*            selected, and 'e' has a command summarize them.              *)
(*   SpecStyle myStyleRunes of the styling demo (src/unnamed/part_002):    *)
(*            one call of the function, a loop step at a time.             *)
(*                                                                         *)
(* The list widget (github.com/charmbracelet/bubbles/list) is not part of  *)
(* the repository.  Its model is kept to what the program calls: Items,    *)
(* VisibleItems, Index, SelectedItem, SetItems, SetItem, Select and        *)
(* Update (browsing, filtering, the asynchronous filter command).  The     *)
(* list is taken to fit on one page, so Index() is the cursor, and the     *)
(* fuzzy filter keeps the matching items in list order.                    *)
(***************************************************************************)
EXTENDS Integers, Sequences, FiniteSets, Bags, TLC

VARIABLES
    status,        \* "running", "quit" (tea.Quit) or the reason of a log.Fatal
    initCmd,       \* position of the goroutine that enumerates the files
    teaListModel,  \* the Bubbles list: items, filter, cursor
    fetchCmds,     \* bag of the in-flight commands of the message-driven variant
    filterCmds,    \* bag of the in-flight filter commands of the list
    heap,          \* updateFn variant: the file objects the pointers point to
    domainListModel, \* updateFn variant: the slice of pointers of the domain model
    units,         \* updateFn variant: bag of the fetch goroutines, each at its position
    fileNameOptions, \* basic summarizer: the files listed, or the nil slice
    cursor,        \* basic summarizer: the index of the file the cursor points at
    selected,      \* basic summarizer: the map of the selected indices, shared by every copy of the model
    executing,     \* basic summarizer: the summarization has been asked for
    fileSummaries, \* basic summarizer: the summaries, or the nil slice
    summarizeCmds, \* basic summarizer: bag of the commands of 'e', each at its position
    runes,         \* myStyleRunes: the runes of the string to style
    indices,       \* myStyleRunes: the set of the indices to highlight
    runeIndex,     \* myStyleRunes: the loop variable i
    out,           \* myStyleRunes: the pieces written to the builder out
    group,         \* myStyleRunes: the runes written to the builder group
    stylePc        \* myStyleRunes: "idle", "loop", "returned" or "panic"

\* The state of the basic file summarizer.
sumVars == <<fileNameOptions, cursor, selected, executing, fileSummaries,
             summarizeCmds>>

\* The state of a call of myStyleRunes.
styleVars == <<runes, indices, runeIndex, out, group, stylePc>>

vars == <<status, initCmd, teaListModel, fetchCmds, filterCmds,
          heap, domainListModel, units, sumVars, styleVars>>

-----------------------------------------------------------------------------
(* Bounds and the environment.                                             *)

\* The largest number of files the enumeration finds.
MaxFiles == 2

\* The largest number of runes of a string given to myStyleRunes.
MaxRunes == 3
\* The largest number of fetches (commands or goroutines) in flight at once.
MaxInFlight == 2

\* Paths are sequences of letters, so that the fuzzy filter has text to match.
PathA == <<"a">>
PathB == <<"b">>
PathAB == <<"a", "b">>
AllPaths == <<PathA, PathB, PathAB>>
Letters == {"a", "b"}
\* The filter texts that are typed.
FilterTexts == {<<>>, <<"a">>, <<"b">>}

\* What the enumeration may find: the first n paths, in traversal order.
Projects == {SubSeq(AllPaths, 1, n) : n \in 0..MaxFiles}

\* The sizes on disk: what os.Stat reports for each path.
DiskSize(path) ==
    CASE path = PathA -> 0
      [] path = PathB -> 42
      [] OTHER -> 2048

Max(a, b) == IF a > b THEN a ELSE b

\* A slice of Go: nil, or the elements it holds.
NilSlice == [isNil |-> TRUE, elems |-> <<>>]
Slice(s) == [isNil |-> FALSE, elems |-> s]

\* main of the basic file summarizer: initialModel, and no command yet.
InitialModel ==
    /\ fileNameOptions = NilSlice
    /\ cursor = 0
    /\ selected = {}
    /\ executing = FALSE
    /\ fileSummaries = NilSlice
    /\ summarizeCmds = EmptyBag

\* The programs with a list never call myStyleRunes.
NoStyleCall ==
    /\ runes = <<>>
    /\ indices = {}
    /\ runeIndex = 0
    /\ out = <<>>
    /\ group = <<>>
    /\ stylePc = "idle"

-----------------------------------------------------------------------------
(* The domain: File and FetchSize.                                         *)

\* -1 represents that the size has not yet been fetched.
NotFetched == -1

\* File{filePath: path}: the entry appended without its size, which Go
\* sets to zero.
NewFileZeroSize(path) == [filePath |-> path, fetching |-> FALSE, size |-> 0]

\* File{filePath: path, size: -1}: the entry the enumeration appends.
NewFile(path) == [filePath |-> path, fetching |-> FALSE, size |-> NotFetched]

\* The nil Item: what SelectedItem() returns when nothing is selected.
NilItem == [filePath |-> <<>>, fetching |-> FALSE, size |-> NotFetched]

\* File.FetchSize after a successful stat: the size is set, fetching is cleared.
FetchSize(f) == [f EXCEPT !.size = DiskSize(f.filePath), !.fetching = FALSE]

-----------------------------------------------------------------------------
(* The list widget.                                                        *)

\* list.New(make([]Item, 0), delegate, 0, 0)
NewList ==
    [items |-> <<>>, filterState |-> "unfiltered", filterValue |-> <<>>,
     filteredItems |-> <<>>, cursor |-> 0]

\* The value the filter matches: File.FilterValue, through the pointer when the
\* item is a pointer into the heap.
FilterValue(item) ==
    IF "ptr" \in DOMAIN item THEN heap[item.ptr].filePath ELSE item.filePath

\* fuzzy match: the letters of term appear in text, in order.
RECURSIVE FuzzyMatch(_, _)
FuzzyMatch(term, text) ==
    IF term = <<>> THEN TRUE
    ELSE IF text = <<>> THEN FALSE
    ELSE IF Head(term) = Head(text) THEN FuzzyMatch(Tail(term), Tail(text))
    ELSE FuzzyMatch(term, Tail(text))

\* filterItems: every item for an empty filter, else the matching items.
FilterItems(term, fstate, its) ==
    IF term = <<>> \/ fstate = "unfiltered" THEN its
    ELSE SelectSeq(its, LAMBDA it : FuzzyMatch(term, FilterValue(it)))

VisibleItems(l) ==
    IF l.filterState # "unfiltered" THEN l.filteredItems ELSE l.items

\* Index(): the cursor's place among the visible items.
Index(l) == l.cursor

SelectedItem(l) ==
    LET i == Index(l)
        vis == VisibleItems(l)
    IN IF i < 0 \/ Len(vis) = 0 \/ Len(vis) <= i THEN NilItem ELSE vis[i + 1]

\* SetItems: the items are replaced; under a filter the filtered items are
\* dropped until the filter command it returns has run.
SetItems(l, its) ==
    [l EXCEPT !.items = its,
              !.filteredItems = IF l.filterState # "unfiltered" THEN <<>> ELSE @]

\* SetItem: items[index] = item; the filtered items are left as they are until
\* the filter command it returns has run.
SetItem(l, index, item) == [l EXCEPT !.items[index + 1] = item]

\* Select with the index off by one.
SelectOffByOne(l, index) == [l EXCEPT !.cursor = index + 1]

Select(l, index) == [l EXCEPT !.cursor = index]

ResetFiltering(l) ==
    IF l.filterState = "unfiltered" THEN l
    ELSE [l EXCEPT !.filterState = "unfiltered", !.filterValue = <<>>,
                   !.filteredItems = <<>>]

\* The end of handleBrowsing: keep the cursor within the visible items.
ClampCursor(l) ==
    LET n == Len(VisibleItems(l))
    IN IF l.cursor > n - 1 THEN [l EXCEPT !.cursor = Max(0, n - 1)] ELSE l

CursorUp(l) == [l EXCEPT !.cursor = Max(0, l.cursor - 1)]

CursorDown(l) ==
    LET n == Len(VisibleItems(l))
        c == l.cursor + 1
    IN [l EXCEPT !.cursor = IF c < n THEN c ELSE IF c > n THEN 0 ELSE n - 1]

\* handleBrowsing for a key.
HandleBrowsing(l, k) ==
    LET m == CASE k = "esc" /\ l.filterState = "applied" -> ResetFiltering(l)
               [] k = "up" -> CursorUp(l)
               [] k = "down" -> CursorDown(l)
               [] k = "/" ->
                    [l EXCEPT !.filteredItems =
                                  IF l.filterValue = <<>> THEN l.items ELSE @,
                              !.cursor = 0,
                              !.filterState = "filtering"]
               [] OTHER -> l
    IN IF k = "/" THEN m ELSE ClampCursor(m)

\* handleFiltering for a key: cancel, accept, or edit the filter text.
HandleFiltering(l, k) ==
    CASE k = "esc" -> ResetFiltering(l)
      [] k \in {"enter", "up", "down"} /\ l.filterValue # <<>> ->
            IF Len(l.items) = 0 THEN l
            ELSE IF Len(VisibleItems(l)) = 0 THEN ResetFiltering(l)
            ELSE [l EXCEPT !.filterState = "applied"]
      [] k \in Letters /\ Append(l.filterValue, k) \in FilterTexts ->
            [l EXCEPT !.filterValue = Append(@, k)]
      [] k = "backspace" /\ l.filterValue # <<>> ->
            [l EXCEPT !.filterValue = SubSeq(@, 1, Len(@) - 1)]
      [] OTHER -> l

\* list.Update for a key: the new list.
ListUpdateKey(l, k) ==
    IF l.filterState = "filtering" THEN HandleFiltering(l, k)
    ELSE HandleBrowsing(l, k)

\* list.Update for a key: whether it returns tea.Quit.
ListQuits(l, k) ==
    /\ l.filterState # "filtering"
    /\ \/ k = "q"
       \/ k = "esc" /\ l.filterState = "unfiltered"

\* list.Update for a message that is no key and none of the list's own.
ListUpdateOther(l) ==
    IF l.filterState = "filtering" THEN l ELSE ClampCursor(l)

\* The filter command list.Update returns when a key edited the filter text
\* (a reset of the filter by esc or by accepting an empty result returns none).
\* It holds a copy of the list: the filter text and state, and the items slice.
FilterCmd(old, new) ==
    IF /\ new.filterValue # old.filterValue
       /\ old.filterState = "filtering"
       /\ new.filterState = "filtering"
    THEN SetToBag({[term |-> new.filterValue, fstate |-> "filtering",
                    empty |-> (Len(new.items) = 0)]})
    ELSE EmptyBag

-----------------------------------------------------------------------------
(* The message-driven variant.                                             *)

Running == status = "running"

Init ==
    /\ status = "running"
    /\ initCmd \in [pc : {"walking"}, files : Projects]
    /\ teaListModel = NewList
    /\ fetchCmds = EmptyBag
    /\ filterCmds = EmptyBag
    /\ heap = <<>>
    /\ domainListModel = <<>>
    /\ units = EmptyBag
    /\ InitialModel
    /\ NoStyleCall

fnVars == <<heap, domainListModel, units>>

\* Update, case foundFiles: the command of Init has listed the files.
FoundFiles ==
    /\ Running
    /\ initCmd.pc = "walking"
    /\ initCmd' = [initCmd EXCEPT !.pc = "done"]
    /\ teaListModel' =
           SetItems(teaListModel,
                    [i \in 1..Len(initCmd.files) |-> NewFile(initCmd.files[i])])
    /\ UNCHANGED styleVars
    /\ UNCHANGED sumVars
    /\ UNCHANGED <<status, fetchCmds, filterCmds, fnVars>>

\* Init's command: listGitProjectFiles fails and the command calls log.Fatal.
EnumerationFails ==
    /\ Running
    /\ initCmd.pc = "walking"
    /\ status' = "fatalEnumeration"
    /\ UNCHANGED styleVars
    /\ UNCHANGED sumVars
    /\ UNCHANGED <<initCmd, teaListModel, fetchCmds, filterCmds,
                   fnVars>>

\* Update, case tea.KeyMsg "enter".
Enter ==
    /\ Running
    /\ LET sel == SelectedItem(teaListModel)
           idx == Index(teaListModel)
           fetching == [sel EXCEPT !.fetching = TRUE]
       IN IF Len(teaListModel.items) = 0
          THEN UNCHANGED <<status, teaListModel, fetchCmds>>
          ELSE IF sel = NilItem
          THEN /\ status' = "fatalCast"
               /\ UNCHANGED <<teaListModel, fetchCmds>>
          ELSE IF sel.size # NotFetched \/ sel.fetching
          THEN UNCHANGED <<status, teaListModel, fetchCmds>>
          ELSE /\ BagCardinality(fetchCmds) < MaxInFlight
               /\ teaListModel' = SetItem(teaListModel, idx, fetching)
               /\ fetchCmds' = fetchCmds (+) SetToBag({fetching})
               /\ UNCHANGED status
    /\ UNCHANGED styleVars
    /\ UNCHANGED sumVars
    /\ UNCHANGED <<initCmd, filterCmds, fnVars>>

\* The command of "enter": File.FetchSize cannot stat the file (it was deleted
\* after the enumeration, say) and calls log.Fatal.
StatFails(c) ==
    /\ Running
    /\ BagIn(c, fetchCmds)
    /\ status' = "fatalStat"
    /\ UNCHANGED styleVars
    /\ UNCHANGED sumVars
    /\ UNCHANGED <<initCmd, teaListModel, fetchCmds, filterCmds, fnVars>>

\* Update has returned tea.Quit and the program is on its way out: until the
\* process ends, the command of "enter" still runs in its goroutine, and
\* File.FetchSize calls log.Fatal when it cannot stat the file.
StatFailsAfterQuit(c) ==
    /\ status = "quit"
    /\ BagIn(c, fetchCmds)
    /\ status' = "fatalStat"
    /\ UNCHANGED styleVars
    /\ UNCHANGED sumVars
    /\ UNCHANGED <<initCmd, teaListModel, fetchCmds, filterCmds, fnVars>>

\* The index of the first item with this path, 0 when there is none.
FirstIndexOf(its, path) ==
    LET hits == {i \in 1..Len(its) : its[i].filePath = path}
    IN IF hits = {} THEN 0 ELSE CHOOSE i \in hits : \A j \in hits : i <= j

\* The command of "enter" returns afterFetch(selectedItem.FetchSize()), and
\* Update, case afterFetch: the first item with the path of the message is
\* replaced by the file of the message.
AfterFetch(c) ==
    /\ Running
    /\ BagIn(c, fetchCmds)
    /\ fetchCmds' = fetchCmds (-) SetToBag({c})
    /\ LET msg == FetchSize(c)
           i == FirstIndexOf(teaListModel.items, msg.filePath)
           merged == IF i = 0 THEN teaListModel
                     ELSE SetItem(teaListModel, i - 1, msg)
       IN /\ teaListModel' = ListUpdateOther(merged)
    /\ UNCHANGED styleVars
    /\ UNCHANGED sumVars
    /\ UNCHANGED <<status, initCmd, filterCmds, fnVars>>

\* Update, case tea.KeyMsg "ctrl+c", "q".
QuitKey ==
    /\ Running
    /\ status' = "quit"
    /\ UNCHANGED styleVars
    /\ UNCHANGED sumVars
    /\ UNCHANGED <<initCmd, teaListModel, fetchCmds, filterCmds,
                   fnVars>>

\* Update, any other key: the list handles it.
OtherKeys == {"up", "down", "/", "esc", "backspace"} \cup Letters

ListKey(k) ==
    /\ Running
    /\ LET new == ListUpdateKey(teaListModel, k)
           cmd == FilterCmd(teaListModel, new)
       IN /\ cmd # EmptyBag => filterCmds = EmptyBag
          /\ teaListModel' = new
          /\ filterCmds' = filterCmds (+) cmd
          /\ status' = IF ListQuits(teaListModel, k) THEN "quit" ELSE status
    /\ UNCHANGED styleVars
    /\ UNCHANGED sumVars
    /\ UNCHANGED <<initCmd, fetchCmds, fnVars>>

\* Update, case tea.WindowSizeMsg: only the size of the list changes.
WindowSize ==
    /\ Running
    /\ teaListModel' = ListUpdateOther(teaListModel)
    /\ UNCHANGED styleVars
    /\ UNCHANGED sumVars
    /\ UNCHANGED <<status, initCmd, fetchCmds, filterCmds, fnVars>>

\* The filter command has run and its FilterMatchesMsg is handled by the list.
FilterMatches(c) ==
    /\ Running
    /\ BagIn(c, filterCmds)
    /\ filterCmds' = filterCmds (-) SetToBag({c})
    /\ teaListModel' =
           [teaListModel EXCEPT !.filteredItems =
                FilterItems(c.term, c.fstate,
                            IF c.empty THEN <<>> ELSE teaListModel.items)]
    /\ UNCHANGED styleVars
    /\ UNCHANGED sumVars
    /\ UNCHANGED <<status, initCmd, fetchCmds, fnVars>>

Next ==
    \/ FoundFiles
    \/ EnumerationFails
    \/ Enter
    \/ \E c \in BagToSet(fetchCmds) : StatFails(c)
    \/ \E c \in BagToSet(fetchCmds) : StatFailsAfterQuit(c)
    \/ \E c \in BagToSet(fetchCmds) : AfterFetch(c)
    \/ QuitKey
    \/ \E k \in OtherKeys : ListKey(k)
    \/ WindowSize
    \/ \E c \in BagToSet(filterCmds) : FilterMatches(c)

Spec == Init /\ [][Next]_vars

\* The commands "enter" can return: one for each file the enumeration finds.
FetchCmdSet ==
    {[NewFile(AllPaths[i]) EXCEPT !.fetching = TRUE] : i \in 1..MaxFiles}

\* Bubble Tea runs every command in a goroutine of its own and hands its
\* message to Update: a command in flight is not delayed forever.
SpecFair == Spec /\ \A c \in FetchCmdSet : WF_vars(AfterFetch(c))

-----------------------------------------------------------------------------
(* The updateFn variant: the list holds pointers to the files of the       *)
(* domain model, and goroutines change the files and call updateFn.        *)

InitFn == Init

\* A pointer to the i-th file object.
Ptr(i) == [ptr |-> i]

\* The nil pointer: SelectedItem() of a list with nothing selected.
NilPtr == [ptr |-> 0]

SelectedPtr(l) == IF SelectedItem(l) = NilItem THEN NilPtr ELSE SelectedItem(l)

\* updateFn without the check of desiredIndex before Select.
UpdateFnAlwaysSelects(l, files) ==
    IF Len(files) # 0
    THEN LET hits == {i \in 1..Len(files) : files[i] = SelectedPtr(l)}
             desiredIndex == IF hits = {} THEN -1
                             ELSE (CHOOSE i \in hits : \A j \in hits : i >= j) - 1
         IN Select(SetItems(l, files), desiredIndex)
    ELSE l

\* updateFn calls log.Fatal when the selected item is not nil and is no *file.
UpdateFnFatal(l, files) ==
    /\ Len(files) # 0
    /\ SelectedItem(l) # NilItem
    /\ "ptr" \notin DOMAIN SelectedItem(l)

\* updateFn with the loop over the files starting one file late.
UpdateFnSkipsFirst(l, files) ==
    IF Len(files) # 0 THEN SetItems(l, Tail(files)) ELSE l

\* The body of updateFn up to programPtr.Send: the list is rebuilt from the
\* domain model and the item that was selected is selected again.
UpdateFn(l, files) ==
    IF Len(files) # 0
    THEN LET selectedItem == SelectedPtr(l)
             hits == {i \in 1..Len(files) : files[i] = selectedItem}
             desiredIndex == IF hits = {} THEN -1
                             ELSE (CHOOSE i \in hits : \A j \in hits : i >= j) - 1
             rebuilt == SetItems(l, files)
         IN IF desiredIndex >= 0 THEN Select(rebuilt, desiredIndex) ELSE rebuilt
    ELSE l

\* main's goroutine: the files are listed and stored in the domain model.
FnLoaded ==
    /\ Running
    /\ initCmd.pc = "walking"
    /\ initCmd' = [initCmd EXCEPT !.pc = "loaded"]
    /\ heap' = [i \in 1..Len(initCmd.files) |-> NewFile(initCmd.files[i])]
    /\ domainListModel' = [i \in 1..Len(initCmd.files) |-> Ptr(i)]
    /\ UNCHANGED styleVars
    /\ UNCHANGED sumVars
    /\ UNCHANGED <<status, teaListModel, fetchCmds, filterCmds, units>>

\* main's goroutine: updateFn, up to the Send.
FnLoaderUpdateFn ==
    /\ Running
    /\ initCmd.pc = "loaded"
    /\ initCmd' = [initCmd EXCEPT !.pc = "sending"]
    /\ teaListModel' = UpdateFn(teaListModel, domainListModel)
    /\ status' = IF UpdateFnFatal(teaListModel, domainListModel)
                 THEN "fatalCast" ELSE status
    /\ UNCHANGED styleVars
    /\ UNCHANGED sumVars
    /\ UNCHANGED <<fetchCmds, filterCmds, heap, domainListModel, units>>

\* main's goroutine: programPtr.Send(struct{}{}) hands the empty message to
\* Update, which passes it to the list.
FnLoaderSend ==
    /\ Running
    /\ initCmd.pc = "sending"
    /\ initCmd' = [initCmd EXCEPT !.pc = "done"]
    /\ teaListModel' = ListUpdateOther(teaListModel)
    /\ UNCHANGED styleVars
    /\ UNCHANGED sumVars
    /\ UNCHANGED <<status, fetchCmds, filterCmds, fnVars>>

\* Update, case tea.KeyMsg "enter": a goroutine is started for an item that
\* is not fetching and has no size; then the list handles the key.
FnEnter ==
    /\ Running
    /\ LET sel == SelectedPtr(teaListModel)
           new == ListUpdateKey(teaListModel, "enter")
       IN IF sel = NilPtr
          THEN /\ status' = "fatalCast"
               /\ UNCHANGED <<teaListModel, units>>
          ELSE /\ IF ~heap[sel.ptr].fetching /\ heap[sel.ptr].size = NotFetched
                  THEN /\ BagCardinality(units) < MaxInFlight
                       /\ units' = units (+) SetToBag({[pc |-> "start", ptr |-> sel.ptr]})
                  ELSE UNCHANGED units
               /\ teaListModel' = new
               /\ UNCHANGED status
    /\ UNCHANGED styleVars
    /\ UNCHANGED sumVars
    /\ UNCHANGED <<initCmd, fetchCmds, filterCmds, heap, domainListModel>>

\* The unit u moves to position pc.
Moved(u, pc) == (units (-) SetToBag({u})) (+) SetToBag({[u EXCEPT !.pc = pc]})

\* The goroutine of "enter": selectedItem.fetching = true
FnUnitMark(u) ==
    /\ Running
    /\ BagIn(u, units)
    /\ u.pc = "start"
    /\ heap' = [heap EXCEPT ![u.ptr].fetching = TRUE]
    /\ units' = Moved(u, "marked")
    /\ UNCHANGED styleVars
    /\ UNCHANGED sumVars
    /\ UNCHANGED <<status, initCmd, teaListModel, fetchCmds, filterCmds,
                   domainListModel>>

\* The goroutine of "enter": m.updateFn(), up to the Send; before and after
\* the fetch.
FnUnitUpdateFn(u) ==
    /\ Running
    /\ BagIn(u, units)
    /\ u.pc \in {"marked", "cleared"}
    /\ teaListModel' = UpdateFn(teaListModel, domainListModel)
    /\ units' = Moved(u, IF u.pc = "marked" THEN "send1" ELSE "send2")
    /\ status' = IF UpdateFnFatal(teaListModel, domainListModel)
                 THEN "fatalCast" ELSE status
    /\ UNCHANGED styleVars
    /\ UNCHANGED sumVars
    /\ UNCHANGED <<initCmd, fetchCmds, filterCmds, heap, domainListModel>>

\* The goroutine of "enter": the Send at the end of updateFn.
FnUnitSend(u) ==
    /\ Running
    /\ BagIn(u, units)
    /\ u.pc \in {"send1", "send2"}
    /\ teaListModel' = ListUpdateOther(teaListModel)
    /\ units' = IF u.pc = "send1" THEN Moved(u, "stat") ELSE units (-) SetToBag({u})
    /\ UNCHANGED styleVars
    /\ UNCHANGED sumVars
    /\ UNCHANGED <<status, initCmd, fetchCmds, filterCmds, heap,
                   domainListModel>>

\* FetchSize(f *file): os.Stat fails and log.Fatal is called.
FnUnitStatFails(u) ==
    /\ Running
    /\ BagIn(u, units)
    /\ u.pc = "stat"
    /\ status' = "fatalStat"
    /\ UNCHANGED styleVars
    /\ UNCHANGED sumVars
    /\ UNCHANGED <<initCmd, teaListModel, fetchCmds, filterCmds, fnVars>>

\* FetchSize(f *file): os.Stat, the sleep, and f.size = fi.Size()
FnUnitSize(u) ==
    /\ Running
    /\ BagIn(u, units)
    /\ u.pc = "stat"
    /\ heap' = [heap EXCEPT ![u.ptr].size = DiskSize(heap[u.ptr].filePath)]
    /\ units' = Moved(u, "sized")
    /\ UNCHANGED styleVars
    /\ UNCHANGED sumVars
    /\ UNCHANGED <<status, initCmd, teaListModel, fetchCmds, filterCmds,
                   domainListModel>>

\* FetchSize(f *file): f.fetching = false
FnUnitClear(u) ==
    /\ Running
    /\ BagIn(u, units)
    /\ u.pc = "sized"
    /\ heap' = [heap EXCEPT ![u.ptr].fetching = FALSE]
    /\ units' = Moved(u, "cleared")
    /\ UNCHANGED styleVars
    /\ UNCHANGED sumVars
    /\ UNCHANGED <<status, initCmd, teaListModel, fetchCmds, filterCmds,
                   domainListModel>>

NextFn ==
    \/ FnLoaded
    \/ EnumerationFails
    \/ FnLoaderUpdateFn
    \/ FnLoaderSend
    \/ FnEnter
    \/ \E u \in BagToSet(units) : FnUnitMark(u)
    \/ \E u \in BagToSet(units) : FnUnitUpdateFn(u)
    \/ \E u \in BagToSet(units) : FnUnitSend(u)
    \/ \E u \in BagToSet(units) : FnUnitStatFails(u)
    \/ \E u \in BagToSet(units) : FnUnitSize(u)
    \/ \E u \in BagToSet(units) : FnUnitClear(u)
    \/ QuitKey
    \/ \E k \in OtherKeys : ListKey(k)
    \/ WindowSize
    \/ \E c \in BagToSet(filterCmds) : FilterMatches(c)

SpecFn == InitFn /\ [][NextFn]_vars

-----------------------------------------------------------------------------
(* The enumeration: listGitProjectFiles.  Init's command is followed through *)
(* the walk of the working directory; initCmd holds the state of the walk.   *)
(* The ignore matcher (go-git's gitignore) is not part of the repository;    *)
(* its model is kept to patterns that are one name or "*", with a trailing   *)
(* "/" (directories only) or a leading "!" (include again).                  *)

\* The largest number of ignore patterns read.
MaxPatterns == 2

\* The working directory, as filepath.WalkDir(".") names it.
Root == <<".">>

\* The tree on disk: the names in each directory, in lexical order.  The
\* entry l is a symbolic link to the directory d.
DirEntries(path) ==
    CASE path = Root -> <<".git", "a", "d", "l">>
      [] path = <<".git">> -> <<"c">>
      [] path = <<"d">> -> <<".git", "f", "g", "h">>
      [] path = <<"d", ".git">> -> <<"c">>
      [] OTHER -> <<>>

\* info.IsDir()
IsDir(path) == path \in {Root, <<".git">>, <<"d">>, <<"d", ".git">>}

\* The entries that are symbolic links: WalkDir does not follow them and
\* info.IsDir() is false of them.
IsSymlink(path) == path = <<"l">>

\* filepath.Join of the directory walked and a name in it.
JoinPath(dir, name) == IF dir = Root THEN <<name>> ELSE Append(dir, name)

\* The paths of the entries of a directory, in the order WalkDir visits them.
ChildPaths(dir) ==
    [i \in 1..Len(DirEntries(dir)) |-> JoinPath(dir, DirEntries(dir)[i])]

\* The patterns the ignore files may hold.
Rule(name, dirOnly, inclusion) ==
    [pattern |-> name, dirOnly |-> dirOnly, inclusion |-> inclusion]

Rules ==
    {Rule("g", FALSE, FALSE), Rule("g", FALSE, TRUE), Rule("d", TRUE, FALSE),
     Rule("a", FALSE, FALSE), Rule("*", FALSE, FALSE)}

\* gitignore.ReadPatterns and worktree.Excludes: a list of distinct patterns.
PatternLists ==
    UNION {{ps \in [1..n -> Rules] :
                \A i, j \in 1..n : i # j => ps[i] # ps[j]} : n \in 0..MaxPatterns}

\* filepath.Match of a pattern that is a name or "*" against a name.
GlobMatch(pattern, name) == pattern = "*" \/ pattern = name

\* One pattern against the path components: the first component the pattern
\* matches decides, but a directories-only pattern does not match the last
\* component of the path of a file.
PatternMatch(p, pathComponents, isDir) ==
    LET hits == {i \in 1..Len(pathComponents) :
                    /\ GlobMatch(p.pattern, pathComponents[i])
                    /\ ~(p.dirOnly /\ ~isDir /\ i = Len(pathComponents))}
    IN IF hits = {} THEN "NoMatch"
       ELSE IF p.inclusion THEN "Include" ELSE "Exclude"

\* Matcher.Match: the last pattern of the list that matches decides.
RECURSIVE Match(_, _, _)
Match(patterns, pathComponents, isDir) ==
    IF patterns = <<>> THEN FALSE
    ELSE LET r == PatternMatch(patterns[Len(patterns)], pathComponents, isDir)
         IN IF r = "NoMatch"
            THEN Match(SubSeq(patterns, 1, Len(patterns) - 1), pathComponents, isDir)
            ELSE r = "Exclude"

\* The function handed to WalkDir without its check of ignored files.
WalkFnListsIgnoredFiles(patterns, path) ==
    IF IsDir(path)
    THEN IF Match(patterns, path, TRUE) \/ path = <<".git">> THEN "SkipDir" ELSE "nil"
    ELSE "append"

\* The function handed to WalkDir with its check of ignored files inverted.
WalkFnListsOnlyIgnored(patterns, path) ==
    LET isDir == IsDir(path)
        ignored == Match(patterns, path, isDir)
    IN IF isDir
       THEN IF ignored THEN "SkipDir"
            ELSE IF path = <<".git">> THEN "SkipDir"
            ELSE "nil"
       ELSE IF ignored THEN "append" ELSE "nil"

\* The function handed to WalkDir without its return for directories: a
\* directory that is not skipped is appended like a file.
WalkFnListsDirectories(patterns, path) ==
    LET isDir == IsDir(path)
        ignored == Match(patterns, path, isDir)
    IN IF isDir /\ (ignored \/ path = <<".git">>) THEN "SkipDir"
       ELSE IF ignored THEN "nil" ELSE "append"

\* The function handed to WalkDir returning filepath.SkipDir for an ignored
\* file as it does for an ignored directory.
WalkFnSkipsAfterIgnoredFile(patterns, path) ==
    LET isDir == IsDir(path)
        ignored == Match(patterns, path, isDir)
    IN IF ignored THEN "SkipDir"
       ELSE IF isDir
       THEN IF path = <<".git">> THEN "SkipDir" ELSE "nil"
       ELSE "append"

\* What the function handed to WalkDir returns for a path it is called with,
\* without an error: "SkipDir", "append" (the file is listed, nil) or "nil".
WalkFn(patterns, path) ==
    LET isDir == IsDir(path)
        ignored == Match(patterns, path, isDir)
    IN IF isDir
       THEN IF ignored THEN "SkipDir"
            ELSE IF path = <<".git">> THEN "SkipDir"
            ELSE "nil"
       ELSE IF ignored THEN "nil" ELSE "append"

\* main and model.Init: the list is empty and Init's command has not yet
\* opened the repository.
InitWalk ==
    /\ status = "running"
    /\ initCmd \in [pc : {"opening"}, files : {<<>>}, todo : {<<>>},
                    patterns : PatternLists]
    /\ teaListModel = NewList
    /\ fetchCmds = EmptyBag
    /\ filterCmds = EmptyBag
    /\ heap = <<>>
    /\ domainListModel = <<>>
    /\ units = EmptyBag
    /\ InitialModel
    /\ NoStyleCall

\* os.Getwd, git.PlainOpen, repo.Worktree or gitignore.ReadPatterns fails:
\* log.Fatal.
OpenFails ==
    /\ Running
    /\ initCmd.pc = "opening"
    /\ status' = "fatalEnumeration"
    /\ UNCHANGED styleVars
    /\ UNCHANGED sumVars
    /\ UNCHANGED <<initCmd, teaListModel, fetchCmds, filterCmds, fnVars>>

\* The patterns are read and filepath.WalkDir(".") starts at the root.
WalkStarts ==
    /\ Running
    /\ initCmd.pc = "opening"
    /\ initCmd' = [initCmd EXCEPT !.pc = "listing", !.todo = <<Root>>]
    /\ UNCHANGED styleVars
    /\ UNCHANGED sumVars
    /\ UNCHANGED <<status, teaListModel, fetchCmds, filterCmds, fnVars>>

\* The directory a path is an entry of.
Parent(path) == SubSeq(path, 1, Len(path) - 1)

\* What WalkDir has left to visit after the function returned r for the
\* first of todo: the entries of a directory it does not skip come next;
\* SkipDir for a directory leaves its entries out, SkipDir for a file leaves
\* out the entries of its directory that remain.
Remaining(todo, r) ==
    LET path == Head(todo)
    IN IF r = "SkipDir"
       THEN IF IsDir(path) THEN Tail(todo)
            ELSE SelectSeq(Tail(todo), LAMBDA p : Parent(p) # Parent(path))
       ELSE IF IsDir(path) THEN ChildPaths(path) \o Tail(todo)
            ELSE Tail(todo)

\* WalkDir calls the function for the next path: a directory it does not
\* skip is read and its entries are walked next, a file it does not ignore
\* is appended to the files.
WalkVisit ==
    /\ Running
    /\ initCmd.pc = "listing"
    /\ initCmd.todo # <<>>
    /\ LET path == Head(initCmd.todo)
           r == WalkFn(initCmd.patterns, path)
       IN initCmd' =
            [initCmd EXCEPT
               !.todo = Remaining(@, r),
               !.files = IF r = "append" THEN Append(@, path) ELSE @]
    /\ UNCHANGED styleVars
    /\ UNCHANGED sumVars
    /\ UNCHANGED <<status, teaListModel, fetchCmds, filterCmds, fnVars>>

\* The error of the walk dropped: the files appended so far are returned as
\* the files of the project.
WalkFailsSilently ==
    /\ Running
    /\ initCmd.pc = "listing"
    /\ initCmd.todo # <<>>
    /\ LET path == Head(initCmd.todo)
       IN IsDir(path) /\ (path = Root \/ WalkFn(initCmd.patterns, path) = "nil")
    /\ initCmd' = [initCmd EXCEPT !.pc = "walking", !.todo = <<>>]
    /\ UNCHANGED styleVars
    /\ UNCHANGED sumVars
    /\ UNCHANGED <<status, teaListModel, fetchCmds, filterCmds, fnVars>>

\* The walk meets a filesystem error (the root cannot be examined, or a
\* directory it descends into cannot be read): the function returns the
\* error, WalkDir and listGitProjectFiles return it, and Init's command
\* calls log.Fatal.
WalkFails ==
    /\ Running
    /\ initCmd.pc = "listing"
    /\ initCmd.todo # <<>>
    /\ LET path == Head(initCmd.todo)
       IN IsDir(path) /\ (path = Root \/ WalkFn(initCmd.patterns, path) = "nil")
    /\ status' = "fatalEnumeration"
    /\ UNCHANGED styleVars
    /\ UNCHANGED sumVars
    /\ UNCHANGED <<initCmd, teaListModel, fetchCmds, filterCmds, fnVars>>

\* WalkDir returns nil and listGitProjectFiles returns the files; Init's
\* command is left to return them as foundFiles.
WalkReturns ==
    /\ Running
    /\ initCmd.pc = "listing"
    /\ initCmd.todo = <<>>
    /\ initCmd' = [initCmd EXCEPT !.pc = "walking"]
    /\ UNCHANGED styleVars
    /\ UNCHANGED sumVars
    /\ UNCHANGED <<status, teaListModel, fetchCmds, filterCmds, fnVars>>

\* filepath.WalkDir(".") run to its end without an error: the files the
\* function has appended when todo is left to visit.
RECURSIVE WalkDir(_, _, _)
WalkDir(patterns, todo, files) ==
    IF todo = <<>> THEN files
    ELSE LET path == Head(todo)
             r == WalkFn(patterns, path)
         IN WalkDir(patterns, Remaining(todo, r),
                    IF r = "append" THEN Append(files, path) ELSE files)

\* The files listGitProjectFiles returns for these ignore patterns.
ListGitProjectFiles(patterns) == WalkDir(patterns, <<Root>>, <<>>)

NextWalk ==
    \/ OpenFails
    \/ WalkStarts
    \/ WalkVisit
    \/ WalkFails
    \/ WalkReturns
    \/ FoundFiles

SpecWalk == InitWalk /\ [][NextWalk]_vars

-----------------------------------------------------------------------------
(* The basic file summarizer: file-summarizer.go.  The file holds the      *)
(* program twice; initCmd.variant says which of the two runs (1: lines     *)
(* 1-198, 2: lines 200-427).  The model value is copied from Update to     *)
(* Update, but its map of selected indices is one object: the command of   *)
(* 'e' captures the model and reads the map when it runs.                  *)

\* The state of the other programs.
listVars == <<teaListModel, fetchCmds, filterCmds, heap, domainListModel, units>>

\* main and model.Init: the command that lists the working directory runs.
InitSum ==
    /\ status = "running"
    /\ initCmd \in [pc : {"listing"}, files : Projects, variant : {1, 2}]
    /\ teaListModel = NewList
    /\ fetchCmds = EmptyBag
    /\ filterCmds = EmptyBag
    /\ heap = <<>>
    /\ domainListModel = <<>>
    /\ units = EmptyBag
    /\ InitialModel
    /\ NoStyleCall

\* listFiles returns the names and Update stores them.
ListFilesReturns ==
    /\ Running
    /\ initCmd.pc = "listing"
    /\ initCmd' = [initCmd EXCEPT !.pc = "done"]
    /\ fileNameOptions' = Slice(initCmd.files)
    /\ UNCHANGED styleVars
    /\ UNCHANGED <<status, listVars, cursor, selected, executing,
                   fileSummaries, summarizeCmds>>

\* The working directory cannot be listed.  listFiles returns the error and
\* Update quits; files drops the error and returns the nil slice, which
\* Update stores.
ListFilesFails ==
    /\ Running
    /\ initCmd.pc = "listing"
    /\ initCmd' = [initCmd EXCEPT !.pc = "done"]
    /\ status' = IF initCmd.variant = 2 THEN "quit" ELSE status
    /\ UNCHANGED styleVars
    /\ UNCHANGED <<listVars, sumVars>>

\* Update, case "ctrl+c", "q".
SumQuitKey ==
    /\ Running
    /\ status' = "quit"
    /\ UNCHANGED styleVars
    /\ UNCHANGED <<initCmd, listVars, sumVars>>

\* Update, case "e" with executing left as it is.
KeyEForgetsExecuting ==
    /\ Running
    /\ BagCardinality(summarizeCmds) < MaxInFlight
    /\ summarizeCmds' = summarizeCmds (+)
           SetToBag({[pc |-> "dispatched", fileNameOptions |-> fileNameOptions,
                      asked |-> selected, summaries |-> <<>>]})
    /\ UNCHANGED styleVars
    /\ UNCHANGED <<status, initCmd, listVars, fileNameOptions, cursor,
                   selected, executing, fileSummaries>>

\* Update, case "e": the command captures the model; asked is what the map
\* of selected indices holds at this moment.
KeyE ==
    /\ Running
    /\ BagCardinality(summarizeCmds) < MaxInFlight
    /\ executing' = TRUE
    /\ summarizeCmds' = summarizeCmds (+)
           SetToBag({[pc |-> "dispatched", fileNameOptions |-> fileNameOptions,
                      asked |-> selected, summaries |-> <<>>]})
    /\ UNCHANGED styleVars
    /\ UNCHANGED <<status, initCmd, listVars, fileNameOptions, cursor,
                   selected, fileSummaries>>

\* Update, case "up", "k".
KeyUp ==
    /\ Running
    /\ cursor' = IF cursor > 0 THEN cursor - 1 ELSE cursor
    /\ UNCHANGED styleVars
    /\ UNCHANGED <<status, initCmd, listVars, fileNameOptions, selected,
                   executing, fileSummaries, summarizeCmds>>

\* Update, case "down", "j" with the comparison off by one.
KeyDownPastLastRow ==
    /\ Running
    /\ cursor' = IF cursor < Len(fileNameOptions.elems)
                  THEN cursor + 1 ELSE cursor
    /\ UNCHANGED styleVars
    /\ UNCHANGED <<status, initCmd, listVars, fileNameOptions, selected,
                   executing, fileSummaries, summarizeCmds>>

\* Update, case "down", "j".
KeyDown ==
    /\ Running
    /\ cursor' = IF cursor < Len(fileNameOptions.elems) - 1
                  THEN cursor + 1 ELSE cursor
    /\ UNCHANGED styleVars
    /\ UNCHANGED <<status, initCmd, listVars, fileNameOptions, selected,
                   executing, fileSummaries, summarizeCmds>>

\* Update, case "enter", " ": the index of the cursor is put into the map
\* or deleted from it.
KeyToggle ==
    /\ Running
    /\ selected' = IF cursor \in selected THEN selected \ {cursor}
                    ELSE selected \cup {cursor}
    /\ UNCHANGED styleVars
    /\ UNCHANGED <<status, initCmd, listVars, fileNameOptions, cursor,
                   executing, fileSummaries, summarizeCmds>>

\* The write of "enter", " " to the map meets the read of a command that is
\* going through it: the Go runtime may end the program (concurrent map read
\* and map write).
ToggleRaces ==
    /\ Running
    /\ \E c \in BagToSet(summarizeCmds) : c.pc = "reading"
    /\ status' = "fatalConcurrentMap"
    /\ UNCHANGED styleVars
    /\ UNCHANGED <<initCmd, listVars, sumVars>>

\* The command c moved on.
Replaced(c, d) == (summarizeCmds (-) SetToBag({c})) (+) SetToBag({d})

\* The loop of summarizeFiles over the file names: the names whose index is
\* in the map, in the order of the listing.
RECURSIVE ChosenFileNames(_, _, _)
ChosenFileNames(names, sel, i) ==
    IF i >= Len(names) THEN <<>>
    ELSE (IF i \in sel THEN <<names[i + 1]>> ELSE <<>>)
         \o ChosenFileNames(names, sel, i + 1)

\* fmt.Sprintf("%s: %d", name, size): the line is kept as the pair.
SummaryLine(name) == <<name, DiskSize(name)>>

\* summarizeFiles when every os.Stat succeeds.
SummarizeFiles(names, sel) ==
    LET chosen == ChosenFileNames(names, sel, 0)
    IN [idx \in 1..Len(chosen) |-> SummaryLine(chosen[idx])]

\* The command of 'e' starts and goes into the loop over the names whatever
\* the listing is.
SumStartNoNilCheck(c) ==
    /\ Running
    /\ BagIn(c, summarizeCmds)
    /\ c.pc = "dispatched"
    /\ summarizeCmds' = Replaced(c, [c EXCEPT !.pc = "reading"])
    /\ UNCHANGED styleVars
    /\ UNCHANGED <<status, initCmd, listVars, fileNameOptions, cursor,
                   selected, executing, fileSummaries>>

\* The command of 'e' starts: summarizeFiles of the second variant returns
\* an error for the nil listing, otherwise the loop over the names begins.
SumStart(c) ==
    /\ Running
    /\ BagIn(c, summarizeCmds)
    /\ c.pc = "dispatched"
    /\ summarizeCmds' = Replaced(c,
           [c EXCEPT !.pc = IF initCmd.variant = 2 /\ c.fileNameOptions.isNil
                            THEN "error" ELSE "reading"])
    /\ UNCHANGED styleVars
    /\ UNCHANGED <<status, initCmd, listVars, fileNameOptions, cursor,
                   selected, executing, fileSummaries>>

\* summarizeFiles has read the map and every os.Stat succeeded.
SumFinish(c) ==
    /\ Running
    /\ BagIn(c, summarizeCmds)
    /\ c.pc = "reading"
    /\ summarizeCmds' = Replaced(c,
           [c EXCEPT !.pc = "result",
                     !.summaries = SummarizeFiles(c.fileNameOptions.elems, selected)])
    /\ UNCHANGED styleVars
    /\ UNCHANGED <<status, initCmd, listVars, fileNameOptions, cursor,
                   selected, executing, fileSummaries>>

\* summarizeFiles: os.Stat of a chosen file fails and the error is returned.
SumStatFails(c) ==
    /\ Running
    /\ BagIn(c, summarizeCmds)
    /\ c.pc = "reading"
    /\ ChosenFileNames(c.fileNameOptions.elems, selected, 0) # <<>>
    /\ summarizeCmds' = Replaced(c, [c EXCEPT !.pc = "error"])
    /\ UNCHANGED styleVars
    /\ UNCHANGED <<status, initCmd, listVars, fileNameOptions, cursor,
                   selected, executing, fileSummaries>>

\* Update, case summarizationMsg (summaries).
SumResult(c) ==
    /\ Running
    /\ BagIn(c, summarizeCmds)
    /\ c.pc = "result"
    /\ summarizeCmds' = summarizeCmds (-) SetToBag({c})
    /\ executing' = FALSE
    /\ fileSummaries' = Slice(c.summaries)
    /\ status' = "quit"
    /\ UNCHANGED styleVars
    /\ UNCHANGED <<initCmd, listVars, fileNameOptions, cursor, selected>>

\* Update, case error: the command of 'e' returned an error.
SumError(c) ==
    /\ Running
    /\ BagIn(c, summarizeCmds)
    /\ c.pc = "error"
    /\ summarizeCmds' = summarizeCmds (-) SetToBag({c})
    /\ status' = "quit"
    /\ UNCHANGED styleVars
    /\ UNCHANGED <<initCmd, listVars, fileNameOptions, cursor, selected,
                   executing, fileSummaries>>

NextSum ==
    \/ ListFilesReturns
    \/ ListFilesFails
    \/ SumQuitKey
    \/ KeyE
    \/ KeyUp
    \/ KeyDown
    \/ KeyToggle
    \/ ToggleRaces
    \/ \E c \in BagToSet(summarizeCmds) : SumStart(c)
    \/ \E c \in BagToSet(summarizeCmds) : SumFinish(c)
    \/ \E c \in BagToSet(summarizeCmds) : SumStatFails(c)
    \/ \E c \in BagToSet(summarizeCmds) : SumResult(c)
    \/ \E c \in BagToSet(summarizeCmds) : SumError(c)

SpecSum == InitSum /\ [][NextSum]_vars

-----------------------------------------------------------------------------
(* myStyleRunes (src/unnamed/part_002:78-119): the runes of a string are   *)
(* rendered in groups, the runes at the given indices with the style       *)
(* matched and the others with the style unmatched, each newline on its    *)
(* own without a style.  What lipgloss makes of a piece of text and a      *)
(* style is kept as the pair of the two.                                   *)

NewLine == "\n"

\* The runes a string is made of: two letters and the newline.
RuneValues == {"x", "y", NewLine}

\* The strings of at most MaxRunes runes.
Strings == UNION {[1..n -> RuneValues] : n \in 0..MaxRunes}

\* The sets of indices, one of them past the end of the longest string.
IndexSets == SUBSET (0..MaxRunes)

\* style.Render(text).
Render(style, text) == [style |-> style, text |-> text]

\* myStyleRunes is called: the map m of the indices is built, the builders
\* are empty and the loop is at the first rune.
InitStyle ==
    /\ status = "running"
    /\ initCmd = [pc |-> "done", files |-> <<>>]
    /\ teaListModel = NewList
    /\ fetchCmds = EmptyBag
    /\ filterCmds = EmptyBag
    /\ heap = <<>>
    /\ domainListModel = <<>>
    /\ units = EmptyBag
    /\ InitialModel
    /\ runes \in Strings
    /\ indices \in IndexSets
    /\ runeIndex = 0
    /\ out = <<>>
    /\ group = <<>>
    /\ stylePc = "loop"

\* The loop body for a newline: it is written without a style.
WriteNewline ==
    /\ stylePc = "loop"
    /\ runeIndex < Len(runes)
    /\ runes[runeIndex + 1] = NewLine
    /\ out' = Append(out, Render("noStyle", <<NewLine>>))
    /\ runeIndex' = runeIndex + 1
    /\ UNCHANGED <<runes, indices, group, stylePc>>
    /\ UNCHANGED <<status, initCmd, listVars, sumVars>>

\* The loop body for another rune with the test for the last rune left out
\* of the condition.
WriteRuneNoEndTest ==
    /\ stylePc = "loop"
    /\ runeIndex < Len(runes)
    /\ runes[runeIndex + 1] # NewLine
    /\ LET grown == Append(group, runes[runeIndex + 1])
           matches == runeIndex \in indices
           nextMatches == (runeIndex + 1) \in indices
           flushed ==
               /\ out' = Append(out, Render(IF matches THEN "matched"
                                            ELSE "unmatched", grown))
               /\ group' = <<>>
               /\ runeIndex' = runeIndex + 1
               /\ UNCHANGED stylePc
       IN IF matches # nextMatches
          THEN flushed
          ELSE IF runeIndex + 1 >= Len(runes)
          THEN /\ stylePc' = "panic"
               /\ group' = grown
               /\ UNCHANGED <<out, runeIndex>>
          ELSE IF runes[runeIndex + 2] = NewLine
          THEN flushed
          ELSE /\ group' = grown
               /\ runeIndex' = runeIndex + 1
               /\ UNCHANGED <<out, stylePc>>
    /\ UNCHANGED <<runes, indices>>
    /\ UNCHANGED <<status, initCmd, listVars, sumVars>>

\* The loop body for another rune: it joins the group, and the group is
\* rendered and emptied when the next index differs in being matched, when
\* the rune is the last one or when the next rune is a newline.  The
\* condition is evaluated from the left: runes[i+1] is read only when the
\* tests before it are false, and a read past the end is a panic.
WriteRune ==
    /\ stylePc = "loop"
    /\ runeIndex < Len(runes)
    /\ runes[runeIndex + 1] # NewLine
    /\ LET grown == Append(group, runes[runeIndex + 1])
           matches == runeIndex \in indices
           nextMatches == (runeIndex + 1) \in indices
           flushed ==
               /\ out' = Append(out, Render(IF matches THEN "matched"
                                            ELSE "unmatched", grown))
               /\ group' = <<>>
               /\ runeIndex' = runeIndex + 1
               /\ UNCHANGED stylePc
       IN IF matches # nextMatches \/ runeIndex = Len(runes) - 1
          THEN flushed
          ELSE IF runeIndex + 1 >= Len(runes)
          THEN /\ stylePc' = "panic"
               /\ group' = grown
               /\ UNCHANGED <<out, runeIndex>>
          ELSE IF runes[runeIndex + 2] = NewLine
          THEN flushed
          ELSE /\ group' = grown
               /\ runeIndex' = runeIndex + 1
               /\ UNCHANGED <<out, stylePc>>
    /\ UNCHANGED <<runes, indices>>
    /\ UNCHANGED <<status, initCmd, listVars, sumVars>>

\* The loop is over and out.String() is returned.
StyleReturns ==
    /\ stylePc = "loop"
    /\ runeIndex = Len(runes)
    /\ stylePc' = "returned"
    /\ UNCHANGED <<runes, indices, runeIndex, out, group>>
    /\ UNCHANGED <<status, initCmd, listVars, sumVars>>

NextStyle ==
    \/ WriteNewline
    \/ WriteRune
    \/ StyleReturns

SpecStyle == InitStyle /\ [][NextStyle]_vars

-----------------------------------------------------------------------------
(* The claims.                                                             *)

Fetched(f) == ~f.fetching /\ f.size # NotFetched
Unfetched(f) == ~f.fetching /\ f.size = NotFetched

\* The number of fetch goroutines in flight for the file object i.
UnitsFor(i) ==
    BagCardinality([u \in {x \in BagToSet(units) : x.ptr = i} |-> units[u]])

\* C1: a second fetch request for an entry, made before the first fetch has
\* completed, spawns nothing: at most one background unit of work is in
\* flight for an entry, whatever the interleaving of the two key events with
\* the start of the unit.
C1_OneUnitPerEntry == \A i \in 1..Len(heap) : UnitsFor(i) <= 1

\* C2: the entries and the list are written by the owning thread only: a
\* step of a background fetch unit changes no entry and no list item.
C2_OnlyOwnerWrites ==
    [][\A u \in BagToSet(units) :
         (FnUnitMark(u) \/ FnUnitUpdateFn(u) \/ FnUnitSize(u) \/ FnUnitClear(u))
         => heap' = heap /\ teaListModel' = teaListModel]_vars

\* C3: no background unit is in flight for an entry that still shows
\* Unfetched: the entry is marked Fetching in the step that accepts the
\* request.
C3_FetchingBeforeUnitRuns ==
    \A u \in BagToSet(units) : ~Unfetched(heap[u.ptr])

\* The rows of a list of files that have this path.
RowsOf(its, path) == {i \in 1..Len(its) : its[i].filePath = path}

\* C4: once the completion of the fetch of path p with size n is applied, the
\* list has a row for p, the rows for p (those of the list and those it
\* shows) report size n with state Fetched, and no other row is changed.
C4_RowReportsSize ==
    [][\A c \in BagToSet(fetchCmds) : AfterFetch(c) =>
         LET p == c.filePath
             its == teaListModel'.items
             vis == VisibleItems(teaListModel')
         IN /\ RowsOf(its, p) # {}
            /\ \A i \in RowsOf(its, p) : Fetched(its[i]) /\ its[i].size = DiskSize(p)
            /\ \A i \in RowsOf(vis, p) : Fetched(vis[i]) /\ vis[i].size = DiskSize(p)
            /\ \A i \in 1..Len(its) : its[i].filePath # p => its[i] = teaListModel.items[i]
      ]_vars

\* Unfetched, then Fetching, then Fetched.
Rank(f) == IF f.fetching THEN 1 ELSE IF f.size = NotFetched THEN 0 ELSE 2

\* C5: in every step every entry stays where it is and its state only moves
\* forward, Unfetched to Fetching to Fetched; a Fetched entry keeps its size.
C5_StateOnlyMovesForward ==
    [][\A i \in 1..Len(teaListModel.items) :
         LET old == teaListModel.items[i]
             new == teaListModel'.items[i]
         IN /\ i <= Len(teaListModel'.items)
            /\ new.filePath = old.filePath
            /\ Rank(new) >= Rank(old)
            /\ Fetched(old) => new = old
      ]_vars

\* A step of updateFn, by the goroutine of main or of a fetch.
UpdateFnStep ==
    \/ FnLoaderUpdateFn
    \/ \E u \in BagToSet(units) : FnUnitUpdateFn(u)

\* C6: when the selected item is a file of the domain model, updateFn leaves
\* it the selected item.
C6_SelectionPreserved ==
    [][(/\ UpdateFnStep
        /\ SelectedPtr(teaListModel) # NilPtr
        /\ \E i \in 1..Len(domainListModel) :
               domainListModel[i] = SelectedPtr(teaListModel))
       => SelectedPtr(teaListModel') = SelectedPtr(teaListModel)]_vars

\* C7: whatever the order of the completions, a row that reports a size is
\* the row of its own entry and reports the size of that entry's file, and
\* once no fetch is in flight no row is left Fetching.
C7_CompletionOnOwnRow ==
    \A i \in 1..Len(teaListModel.items) :
        LET f == teaListModel.items[i]
        IN /\ f.size # NotFetched => f = FetchSize(NewFile(initCmd.files[i]))
           /\ fetchCmds = EmptyBag => ~f.fetching

\* A fetch is pending or its completion has been merged.
FetchStarted == units # EmptyBag \/ \E i \in 1..Len(heap) : ~Unfetched(heap[i])

\* C8: with filter text typed while a fetch is pending or merged, once no
\* filter command is outstanding the list shows at least one item when an
\* item matches the filter text.
C8_FilteredListNotEmpty ==
    (/\ initCmd.pc = "done"
     /\ FetchStarted
     /\ teaListModel.filterState # "unfiltered"
     /\ teaListModel.filterValue # <<>>
     /\ filterCmds = EmptyBag
     /\ \E i \in 1..Len(teaListModel.items) :
            FuzzyMatch(teaListModel.filterValue, FilterValue(teaListModel.items[i])))
    => VisibleItems(teaListModel) # <<>>

\* C9: a failed stat of one entry's file does not end the program.
C9_StatFailureNotFatal == status # "fatalStat"

\* C10: when the stat of an entry's file fails, the entry is left neither
\* Fetching nor Unfetched.
C10_FailedEntryTerminal ==
    [][\A c \in BagToSet(fetchCmds) :
         StatFails(c) =>
            \A i \in RowsOf(teaListModel'.items, c.filePath) :
                /\ ~teaListModel'.items[i].fetching
                /\ ~Unfetched(teaListModel'.items[i])
      ]_vars

\* An entry seen half way through FetchSize: the size is written, fetching is
\* still set.
Partial(f) == f.fetching /\ f.size # NotFetched

\* A step that observes the entries: updateFn reads the domain model, and
\* View renders the list after every Update.
ObservingStep ==
    \/ UpdateFnStep
    \/ WindowSize
    \/ FnEnter
    \/ \E k \in OtherKeys : ListKey(k)

\* C11: no resync and no render pass observes an entry half way from Fetching
\* to Fetched: what it sees is (fetching, no size) or (not fetching, size).
C11_NoPartialTransition ==
    [][ObservingStep => \A i \in 1..Len(heap) : ~Partial(heap[i])]_vars

\* C12: updateFn is idempotent: with the domain model as it is, a second
\* updateFn leaves the list of the first one as it is, item by item, and the
\* cursor where it is.
C12_ResyncIdempotent ==
    LET once == UpdateFn(teaListModel, domainListModel)
        twice == UpdateFn(once, domainListModel)
    IN /\ twice.items = once.items
       /\ VisibleItems(twice) = VisibleItems(once)
       /\ twice.cursor = once.cursor

\* updateFn has just rebuilt a list of several files with the cursor off the
\* first row.
C12_Witness ==
    /\ \E u \in BagToSet(units) : u.pc \in {"send1", "send2"}
    /\ Len(teaListModel.items) > 1
    /\ teaListModel.items = domainListModel
    /\ teaListModel.cursor = 1
    /\ SelectedPtr(teaListModel) = Ptr(2)

\* C13: after every updateFn the list is the domain model row for row: the
\* same length, and row i is file i, with its path and its state; an empty
\* domain model goes with an empty list.
C13_ListProjectsStore ==
    [][UpdateFnStep =>
         /\ Len(teaListModel'.items) = Len(domainListModel')
         /\ \A i \in 1..Len(domainListModel') :
                /\ teaListModel'.items[i] = domainListModel'[i]
                /\ FilterValue(teaListModel'.items[i]) = initCmd.files[i]
      ]_vars

\* A fetch goroutine has just run updateFn over two files, the second of
\* them fetching.
C13_Witness ==
    /\ \E u \in BagToSet(units) : u.pc = "send1" /\ u.ptr = 2
    /\ Len(domainListModel) = 2
    /\ teaListModel.items = domainListModel
    /\ heap[2].fetching

C15_EnterOnFetchedIsNoOp ==
    [][(/\ Enter
        /\ SelectedItem(teaListModel) # NilItem
        /\ LET rows == RowsOf(teaListModel.items,
                              SelectedItem(teaListModel).filePath)
           IN /\ rows # {}
              /\ \A i \in rows : Fetched(teaListModel.items[i]))
       => /\ fetchCmds' = fetchCmds
          /\ teaListModel' = teaListModel]_vars

\* C16: a fetch unit posts one message to the owning thread, its result: the
\* unit ends with the message it posts, and the size it carries is not in the
\* entry before the owning thread handles the message.
C16_OneResultPerUnit ==
    [][\A u \in BagToSet(units) : FnUnitSend(u) =>
         /\ BagCardinality(units') < BagCardinality(units)
         /\ UnitsFor(u.ptr) = 1 => heap[u.ptr].size = NotFetched
      ]_vars

\* A step in which the result of the fetch of this path arrives.
ResultArrives(path) ==
    \E c \in BagToSet(fetchCmds) : c.filePath = path /\ AfterFetch(c)

\* C17: while fetches are in flight the owning thread is not blocked: a
\* resize and a key are handled in every such state, and an entry that is
\* Fetching stays as it is in every step but the arrival of its result.
C17_OwnerNeverBlocks ==
    [][/\ (Running /\ fetchCmds # EmptyBag) =>
              (ENABLED WindowSize /\ ENABLED ListKey("down") /\ ENABLED QuitKey)
       /\ \A i \in 1..Len(teaListModel.items) :
              (/\ Running
               /\ teaListModel.items[i].fetching
               /\ ~ResultArrives(teaListModel.items[i].filePath))
              => teaListModel'.items[i] = teaListModel.items[i]
      ]_vars

\* C18: while the program runs, an entry that is Fetching leaves Fetching.
C18_FetchingEventuallyEnds ==
    \A i \in 1..MaxFiles :
        (/\ Running
         /\ i <= Len(teaListModel.items)
         /\ teaListModel.items[i].fetching)
        ~> (\/ ~Running
            \/ i <= Len(teaListModel.items) /\ ~teaListModel.items[i].fetching)

\* C19: when the enumeration is loaded the list holds one entry for each
\* path it found, in the order it found them, and every entry is Unfetched.
C19_LoadedEntriesUnfetched ==
    [][FoundFiles =>
         /\ Len(teaListModel'.items) = Len(initCmd.files)
         /\ \A i \in 1..Len(initCmd.files) :
                /\ teaListModel'.items[i].filePath = initCmd.files[i]
                /\ Unfetched(teaListModel'.items[i])
      ]_vars

\* The enumeration of two files has just been loaded.
C19_Witness ==
    /\ initCmd.pc = "done"
    /\ fetchCmds = EmptyBag
    /\ Len(teaListModel.items) = 2
    /\ teaListModel.items[1].filePath = PathA
    /\ teaListModel.items[2].filePath = PathB
    /\ \A i \in 1..2 : Unfetched(teaListModel.items[i])

\* The directories above a path, from the top.
Ancestors(path) == {SubSeq(path, 1, k) : k \in 1..(Len(path) - 1)}

\* C20: the files enumerated hold no path inside the metadata directory of
\* the project (.git in the working directory), no path that matches the
\* ignore patterns, and no path beneath a directory that matches them.
C20_EnumerationExcludes ==
    initCmd.pc \in {"listing", "walking", "done"} =>
        \A i \in 1..Len(initCmd.files) :
            LET path == initCmd.files[i]
            IN /\ path[1] # ".git"
               /\ ~Match(initCmd.patterns, path, FALSE)
               /\ ~Match(initCmd.patterns, Root, TRUE)
               /\ \A dir \in Ancestors(path) : ~Match(initCmd.patterns, dir, TRUE)

\* The enumeration is loaded with a pattern that ignores g: a and d/f are
\* listed, d/g and .git/c are not.
C20_Witness ==
    /\ initCmd.pc = "done"
    /\ initCmd.patterns = <<Rule("g", FALSE, FALSE)>>
    /\ \E i \in 1..Len(teaListModel.items) : teaListModel.items[i].filePath = <<"a">>
    /\ \E i \in 1..Len(teaListModel.items) : teaListModel.items[i].filePath = <<"d", "f">>
    /\ ~\E i \in 1..Len(teaListModel.items) : teaListModel.items[i].filePath = <<"d", "g">>

\* A list of patterns without its i-th pattern.
RemoveAt(patterns, i) ==
    SubSeq(patterns, 1, i - 1) \o SubSeq(patterns, i + 1, Len(patterns))

\* C21 as stated: the files enumerated with one rule of the ignore patterns
\* removed, whichever rule it is, are at least as many as the files
\* enumerated with the rule present.
C21_RemovingRuleNeverDecreases ==
    initCmd.pc = "walking" =>
        \A i \in 1..Len(initCmd.patterns) :
            Len(ListGitProjectFiles(RemoveAt(initCmd.patterns, i)))
                >= Len(initCmd.files)

\* C21 amended: the files enumerated with one excluding rule removed (a rule
\* without a leading "!") are at least as many as the files enumerated with
\* the rule present.
C21_RemovingExcludeNeverDecreases ==
    initCmd.pc = "walking" =>
        \A i \in 1..Len(initCmd.patterns) :
            ~initCmd.patterns[i].inclusion =>
                Len(ListGitProjectFiles(RemoveAt(initCmd.patterns, i)))
                    >= Len(initCmd.files)

\* The walk has ended with the rule that ignores g in force, and without the
\* rule one more file is enumerated.
C21_Witness ==
    /\ initCmd.pc = "walking"
    /\ initCmd.patterns = <<Rule("g", FALSE, FALSE)>>
    /\ Len(ListGitProjectFiles(RemoveAt(initCmd.patterns, 1)))
           = Len(initCmd.files) + 1

\* C22: whatever the ignore patterns are, no file enumerated lies under a
\* directory named .git, wherever in the tree the directory is.
C22_MetadataDirSkippedEverywhere ==
    \A i \in 1..Len(initCmd.files) :
        \A dir \in Ancestors(initCmd.files[i]) : dir[Len(dir)] # ".git"

\* C23 as stated: every path enumerated names a regular file.
C23_OnlyRegularFiles ==
    \A i \in 1..Len(initCmd.files) :
        ~IsDir(initCmd.files[i]) /\ ~IsSymlink(initCmd.files[i])

\* C23 amended: no directory is enumerated (every path enumerated names an
\* entry that is not a directory: a regular file or a symbolic link), and
\* the visit of a directory that is neither ignored nor skipped lists
\* nothing and goes on with its entries.
C23_NoDirectoryListed ==
    [][/\ \A i \in 1..Len(initCmd'.files) : ~IsDir(initCmd'.files[i])
       /\ WalkVisit =>
            LET path == Head(initCmd.todo)
            IN (/\ IsDir(path)
                /\ ~Match(initCmd.patterns, path, TRUE)
                /\ path # <<".git">>)
               => /\ initCmd'.files = initCmd.files
                  /\ initCmd'.todo = ChildPaths(path) \o Tail(initCmd.todo)
      ]_vars

\* The walk has ended: it went into the directory d, whose file f is
\* enumerated, and d itself is not.
C23_Witness ==
    /\ initCmd.pc = "walking"
    /\ \E i \in 1..Len(initCmd.files) : initCmd.files[i] = <<"d", "f">>
    /\ ~\E i \in 1..Len(initCmd.files) : initCmd.files[i] = <<"d">>

\* The directories the walk goes into: the function returns nil for the
\* directory and for every directory above it.
RECURSIVE Descended(_, _)
Descended(patterns, dir) ==
    /\ IsDir(dir)
    /\ WalkFn(patterns, dir) = "nil"
    /\ dir # Root => Descended(patterns, IF Len(dir) = 1 THEN Root ELSE Parent(dir))

\* The paths of the tree.
TreePaths ==
    {Root, <<".git">>, <<".git", "c">>, <<"a">>, <<"d">>, <<"d", ".git">>,
     <<"d", ".git", "c">>, <<"d", "f">>, <<"d", "g">>, <<"d", "h">>, <<"l">>}

\* C24: the visit of an ignored file lists nothing and leaves the rest of its
\* directory to be visited, and when the walk has ended every file that is
\* not ignored and has an ignored file in its directory, before or after
\* it, is enumerated.
C24_SiblingsOfIgnoredFileListed ==
    [][/\ WalkVisit =>
            LET path == Head(initCmd.todo)
            IN (~IsDir(path) /\ Match(initCmd.patterns, path, FALSE))
               => /\ initCmd'.files = initCmd.files
                  /\ initCmd'.todo = Tail(initCmd.todo)
       /\ WalkReturns =>
            \A dir \in {d \in TreePaths : Descended(initCmd.patterns, d)} :
              \A i, j \in 1..Len(ChildPaths(dir)) :
                LET ignoredFile == ChildPaths(dir)[i]
                    sibling == ChildPaths(dir)[j]
                IN (/\ ~IsDir(ignoredFile)
                    /\ Match(initCmd.patterns, ignoredFile, FALSE)
                    /\ ~IsDir(sibling)
                    /\ ~Match(initCmd.patterns, sibling, FALSE))
                   => \E k \in 1..Len(initCmd'.files) : initCmd'.files[k] = sibling
      ]_vars

\* The walk has ended with d/g ignored: d/f, visited before it, and d/h,
\* visited after it, are enumerated.
C24_Witness ==
    /\ initCmd.pc = "walking"
    /\ Match(initCmd.patterns, <<"d", "g">>, FALSE)
    /\ \E i \in 1..Len(initCmd.files) : initCmd.files[i] = <<"d", "f">>
    /\ \E i \in 1..Len(initCmd.files) : initCmd.files[i] = <<"d", "h">>
    /\ ~\E i \in 1..Len(initCmd.files) : initCmd.files[i] = <<"d", "g">>

\* C25: a filesystem error met during the walk ends the program with
\* log.Fatal and nothing happens after it: the list is still empty, and a
\* list that is displayed holds the files of the whole walk, never a part of
\* them.
C25_WalkErrorIsFatal ==
    /\ status = "fatalEnumeration" =>
          /\ teaListModel.items = <<>>
          /\ initCmd.pc \in {"opening", "listing"}
          /\ ~ENABLED NextWalk
    /\ teaListModel.items # <<>> =>
          /\ status = "running"
          /\ initCmd.pc = "done"
          /\ [i \in 1..Len(teaListModel.items) |-> teaListModel.items[i].filePath]
                = ListGitProjectFiles(initCmd.patterns)

\* The walk has failed after it had appended a file: the program has ended
\* and the list shows nothing.
C25_Witness ==
    /\ status = "fatalEnumeration"
    /\ initCmd.pc = "listing"
    /\ initCmd.files # <<>>
    /\ initCmd.todo # <<>>
    /\ teaListModel.items = <<>>

\* One line, name and size, for each name whose index is in sel, in the
\* order of the listing.
LinesOf(names, sel) ==
    LET Chosen(i) == (i - 1) \in sel
        F[i \in 0..Len(names)] ==
            IF i = 0 THEN <<>>
            ELSE IF Chosen(i) THEN Append(F[i - 1], <<names[i], DiskSize(names[i])>>)
                 ELSE F[i - 1]
    IN F[Len(names)]

\* C26: the summaries stored when the result of 'e' arrives are one line,
\* name and size, for each selected file and for no other file, in the
\* order of the listing; the selected files are those selected when 'e' was
\* pressed or, at the latest, those selected when the summaries are stored.
C26_SummariesOfSelectedFiles ==
    [][\A c \in BagToSet(summarizeCmds) : SumResult(c) =>
          \/ fileSummaries'.elems = LinesOf(c.fileNameOptions.elems, c.asked)
          \/ fileSummaries'.elems = LinesOf(fileNameOptions.elems, selected)
      ]_vars

\* C27: 'e' puts the model in the executing state, and the only step that
\* ends the executing state is the arrival of the result of a summarization:
\* that step stores the summaries of the result and quits.
C27_ExecutingUntilResult ==
    [][/\ KeyE => executing'
       /\ (executing /\ ~executing') =>
            \E c \in BagToSet(summarizeCmds) :
                /\ SumResult(c)
                /\ c.pc = "result"
                /\ fileSummaries' = Slice(c.summaries)
                /\ status' = "quit"
      ]_vars

\* The result of 'e' has arrived: the program has quit with the summaries of
\* one file stored and executing false.
C27_Witness ==
    /\ status = "quit"
    /\ ~executing
    /\ ~fileSummaries.isNil
    /\ Len(fileSummaries.elems) = 1
    /\ summarizeCmds = EmptyBag

\* C28: while the program runs the quit keys are always accepted, whatever
\* is in flight; Update answers them with tea.Quit, and once it has, the
\* program ends as a clean quit: nothing turns the quit into a failure.
C28_QuitKeyQuitsCleanly ==
    [][/\ Running => ENABLED QuitKey
       /\ QuitKey => status' = "quit"
       /\ status = "quit" => status' = "quit"
      ]_vars

\* C29: once the files are loaded, the list holds the paths the enumeration
\* found, each once and in the order of the enumeration, whatever keys and
\* fetch completions were handled since.
C29_ListHoldsEveryPathOnce ==
    initCmd.pc = "done" =>
        [i \in 1..Len(teaListModel.items) |-> teaListModel.items[i].filePath]
            = initCmd.files

\* C30: Enter while the list has no entries starts no fetch, changes nothing
\* and does not end the program.
C30_EnterOnEmptyListIsNoOp ==
    [][(teaListModel.items = <<>> /\ (Enter \/ FnEnter)) => UNCHANGED vars]_vars

\* C31: the step that applies the completion of the fetch of path p leaves
\* every entry with another path as it was, in the list and in what the list
\* shows, leaves the order of the paths and the cursor as they were, and
\* changes nothing of the list when no entry has the path p.
C31_CompletionChangesOnlyItsEntry ==
    [][\A c \in BagToSet(fetchCmds) : AfterFetch(c) =>
         LET p == c.filePath
             old == teaListModel
             new == teaListModel'
         IN /\ Len(new.items) = Len(old.items)
            /\ \A i \in 1..Len(old.items) :
                  /\ new.items[i].filePath = old.items[i].filePath
                  /\ old.items[i].filePath # p => new.items[i] = old.items[i]
            /\ Len(VisibleItems(new)) = Len(VisibleItems(old))
            /\ \A i \in 1..Len(VisibleItems(old)) :
                  VisibleItems(old)[i].filePath # p
                      => VisibleItems(new)[i] = VisibleItems(old)[i]
            /\ new.cursor = old.cursor
            /\ RowsOf(old.items, p) = {} => new = old
      ]_vars

\* C32: the summaries stored are those of the files that were selected when
\* 'e' was pressed: the keys enter and space handled after 'e' do not change
\* which files are summarized.
C32_SummariesOfSelectionAtE ==
    [][\A c \in BagToSet(summarizeCmds) : SumResult(c) =>
          fileSummaries'.elems = LinesOf(c.fileNameOptions.elems, c.asked)
      ]_vars

\* C33: the cursor is never below 0 and never above the last row (0 when
\* there is no row); 'up' at the first row and 'down' at the last row, or
\* with no row, leave it where it is.
C33_CursorInBounds ==
    [][/\ cursor' \in 0..Max(0, Len(fileNameOptions'.elems) - 1)
       /\ (KeyUp /\ cursor = 0) => cursor' = cursor
       /\ (KeyDown /\ cursor >= Len(fileNameOptions.elems) - 1) => cursor' = cursor
      ]_vars

\* The cursor is on the last of several rows.
C33_Witness ==
    /\ Len(fileNameOptions.elems) = MaxFiles
    /\ cursor = Len(fileNameOptions.elems) - 1
    /\ status = "running"

\* C34: enter/space changes the membership of the cursor's index in the
\* selected set and of no other index, and every selected index is the index
\* of a row of the listing.
C34_ToggleOnExistingRow ==
    [][/\ KeyToggle =>
            /\ (cursor \in selected') # (cursor \in selected)
            /\ selected' \ {cursor} = selected \ {cursor}
       /\ \A i \in selected' : i < Len(fileNameOptions'.elems)
      ]_vars

\* The step turned one command into an error without summaries.
YieldsError ==
    \E d \in BagToSet(summarizeCmds') :
        /\ d.pc = "error"
        /\ d.summaries = <<>>
        /\ CopiesIn(d, summarizeCmds') = CopiesIn(d, summarizeCmds) + 1

\* C35: in the summarizer with the file listing message (second variant), a
\* summarization whose 'e' was pressed before the listing arrived, or in
\* which the stat of a chosen file fails, yields an error without summaries
\* and never a result; when the error is handled the stored summaries are
\* still unset and the program quits.
C35_ErrorLeavesSummariesUnset ==
    [][initCmd.variant = 2 =>
         \A c \in BagToSet(summarizeCmds) :
            /\ (SumStart(c) /\ c.fileNameOptions.isNil) => YieldsError
            /\ SumStatFails(c) => YieldsError
            /\ SumResult(c) => ~c.fileNameOptions.isNil
            /\ SumError(c) => /\ fileSummaries' = NilSlice
                              /\ status' = "quit"
      ]_vars

\* 'e' was pressed before the listing arrived and its error has been
\* handled.
C35_Witness ==
    /\ initCmd.variant = 2
    /\ initCmd.pc = "listing"
    /\ executing
    /\ summarizeCmds = EmptyBag
    /\ fileSummaries = NilSlice
    /\ status = "quit"

\* File.Description, what the list shows under the path of an entry: the
\* digits stand for the size printed by prettyPrintBytes.
Description(f) ==
    IF f.fetching THEN "Fetching..."
    ELSE IF f.size = NotFetched THEN "-"
    ELSE ToString(f.size)

\* C36: a completed fetch never yields the 'not fetched' value; when a fetch
\* completes with size 0 every shown entry with its path shows the size, and
\* a fetch request on a shown entry whose row of the list is fetched with
\* size 0 adds no fetch.
C36_SizeZeroIsFetched ==
    [][/\ \A c \in BagToSet(fetchCmds) : AfterFetch(c) =>
            /\ FetchSize(c).size # NotFetched
            /\ FetchSize(c).size = 0 =>
                  \A i \in 1..Len(VisibleItems(teaListModel')) :
                     VisibleItems(teaListModel')[i].filePath = c.filePath
                        => Description(VisibleItems(teaListModel')[i]) = "0"
       /\ (/\ Enter
           /\ SelectedItem(teaListModel) # NilItem
           /\ LET rows == RowsOf(teaListModel.items,
                                 SelectedItem(teaListModel).filePath)
              IN /\ rows # {}
                 /\ \A i \in rows : /\ Fetched(teaListModel.items[i])
                                     /\ teaListModel.items[i].size = 0)
          => fetchCmds' = fetchCmds
      ]_vars

\* The runes of the pieces of o, each with the style of its piece.
RECURSIVE StyledRunes(_)
StyledRunes(o) ==
    IF o = <<>> THEN <<>>
    ELSE [k \in 1..Len(o[1].text) |-> <<o[1].text[k], o[1].style>>]
         \o StyledRunes(Tail(o))

\* C37: myStyleRunes never reads past the end of the runes, and what it
\* returns holds the runes of the string once each and in their order, a
\* newline without a style and alone in its piece, any other rune with the
\* style matched when its index is among the indices and with the style
\* unmatched when it is not, and no newline inside a styled piece.
C37_EveryRuneStyledOnce ==
    /\ stylePc # "panic"
    /\ stylePc = "returned" =>
          /\ StyledRunes(out) =
                [k \in 1..Len(runes) |->
                    <<runes[k],
                      IF runes[k] = NewLine THEN "noStyle"
                      ELSE IF (k - 1) \in indices THEN "matched"
                      ELSE "unmatched">>]
          /\ \A n \in 1..Len(out) :
                IF out[n].style = "noStyle"
                THEN out[n].text = <<NewLine>>
                ELSE \A k \in 1..Len(out[n].text) : out[n].text[k] # NewLine

\* A string of two lines, with a highlighted and a plain rune, was rendered.
C37_Witness ==
    /\ stylePc = "returned"
    /\ Len(runes) = MaxRunes
    /\ \E k \in 2..(Len(runes) - 1) : runes[k] = NewLine
    /\ \E n \in 1..Len(out) : out[n].style = "matched"
    /\ \E n \in 1..Len(out) : out[n].style = "unmatched"

====
